---- MODULE Spec2Model ----
(***************************************************************************)
(* State-machine model of the Blob2 hover/tooltip controller               *)
(* (src/unnamed/part_000).  One action per event the component handles:    *)
(* mount, pointer-over, the two pointer debounce timers, code click,       *)
(* location change, the hover and definition lookups resolving, the        *)
(* loader timer, the go-to-definition button, close button and Escape.     *)
(*                                                                         *)
(* Handlers are written as operators from a "world" record to a world      *)
(* record, in the order in which the constructor subscribes them; an       *)
(* action applies the handler to the current variables.  React's setState  *)
(* is modelled with its two modes: inside a React event handler or a       *)
(* lifecycle method updates are queued and this.state keeps the committed  *)
(* value until the batch is flushed; elsewhere (timers, lookup responses,  *)
(* window listeners) every setState commits, rerenders and runs            *)
(* componentDidUpdate before it returns.                                   *)
(***************************************************************************)
EXTENDS Integers, Sequences, FiniteSets, TLC

(***************************************************************************)
(* Bounds of the model.                                                    *)
(***************************************************************************)
NumLines == 2          \* lines of the file shown
NumChars == 1          \* tokens per line
MaxEvents == 2         \* user events (pointer, click, key, navigation) handled
MaxOffset == 60        \* largest offset of a measured target from the top of the content
NumCampaigns == 2      \* campaigns the hook is rendered with
MaxQueries == 3        \* queries the hook issues

(***************************************************************************)
(* Program constants and DOM geometry.                                     *)
(***************************************************************************)
BLOB_PADDING_TOP == 8
LineHeight == 20       \* height of a table row in px
CharWidth == 10        \* width of a token in px
BlobHeight == 40       \* client height of the scrollable blob element
TooltipHeight == 20    \* height of the rendered hover overlay

Lines == 1..NumLines
Characters == 1..NumChars

(***************************************************************************)
(* Values.  undefined, null, 'loading', false and the objects are records  *)
(* with a kind field so that they compare with each other.                 *)
(***************************************************************************)
Undefined == [kind |-> "undefined"]
Null == [kind |-> "null"]
LOADING == [kind |-> "loading"]
False == [kind |-> "false"]
SameTab == [kind |-> "same-tab"]
NewTab == [kind |-> "new-tab"]

\* Position (1-indexed line and character, as parseHash and
\* getTargetLineAndOffset produce them)
Pos(l, c) == [kind |-> "position", line |-> l, character |-> c]
Positions == {Pos(l, c) : l \in Lines, c \in Characters}

\* DOM elements a pointer event can target: a token <span> in a code cell,
\* or the code cell <td> itself (the empty space after the end of the line)
Token(l, c) == [kind |-> "element", tagName |-> "SPAN", line |-> l, character |-> c]
Cell(l) == [kind |-> "element", tagName |-> "TD", line |-> l, character |-> 0]
Tokens == {Token(l, c) : l \in Lines, c \in Characters}
Cells == {Cell(l) : l \in Lines}
Targets == Tokens \cup Cells

\* location.hash: '' | '#L<line>' | '#L<line>:<character>'
Hash(l, c) == [kind |-> "hash", prefix |-> "#", line |-> l, character |-> c]
EmptyHash == [kind |-> "hash", prefix |-> "", line |-> 0, character |-> 0]

\* An LSP range start is zero-based
LspPos(l, c) == [kind |-> "lsp-position", line |-> l, character |-> c]
NoRange == [kind |-> "no-range"]

\* Values of a hover lookup for the position p; `of` records the position
\* the lookup was issued for
HoverValue(p, contents, range) ==
    [kind |-> "hover", of |-> p, contents |-> contents, range |-> range]
NullHover(p) == [kind |-> "null", of |-> p]
ErrorLike(p) == [kind |-> "error", of |-> p]
JumpURL(p) == [kind |-> "jumpURL", of |-> p]
NullURL(p) == [kind |-> "null", of |-> p]

\* What the language server can answer to fetchHover at p
HoverResponses(p) ==
    { [ok |-> TRUE, value |-> HoverValue(p, 1, LspPos(p.line - 1, p.character - 1)), code |-> ""],
      [ok |-> TRUE, value |-> HoverValue(p, 0, NoRange), code |-> ""],
      [ok |-> TRUE, value |-> NullHover(p), code |-> ""],
      [ok |-> FALSE, value |-> Undefined, code |-> "EMODENOTFOUND"],
      [ok |-> FALSE, value |-> Undefined, code |-> "EOTHER"] }

\* What fetchJumpURL can answer at p: a URL, null, or a failure
JumpURLResponses(p) ==
    { [ok |-> TRUE, value |-> JumpURL(p)],
      [ok |-> TRUE, value |-> NullURL(p)],
      [ok |-> FALSE, value |-> Undefined] }

(***************************************************************************)
(* Pure helpers.                                                           *)
(***************************************************************************)
isDefined(val) == val.kind \notin {"undefined", "null"}

truthy(val) == val.kind \notin {"undefined", "null", "false"}

isHover(val) == val.kind = "hover"

isEmptyHover(hover) == hover.contents = 0

isJumpURL(val) == val.kind = "jumpURL"

isErrorLike(val) == val.kind = "error"

isEqual(a, b) == a = b

matchesTd(target) == target.tagName = "TD"

\* lodash-free part of parseHash: the line and the character of the hash,
\* undefined where the hash has none
parseHash(hash) ==
    [line |-> IF hash.line > 0 THEN hash.line ELSE 0,
     character |-> IF hash.line > 0 /\ hash.character > 0 THEN hash.character ELSE 0]

\* Position.is: both line and character are numbers
PositionIs(parsed) == parsed.line > 0 /\ parsed.character > 0

toPositionOrRangeHash(position) == Hash(position.line, position.character)

\* The position of a hovered or clicked element, undefined when the element
\* is not a token (e.g. after the end of the line)
getTargetLineAndOffset(target) ==
    IF target.tagName = "SPAN" THEN Pos(target.line, target.character) ELSE Undefined

\* The token element that starts at the given offset of a row, if any
findElementWithOffset(line, offset) ==
    IF line \in Lines /\ offset \in Characters THEN Token(line, offset) ELSE Undefined

getTokenAtPosition(position) ==
    IF position.line + 1 \notin Lines
    THEN Undefined
    ELSE findElementWithOffset(position.line + 1, position.character + 1)

toPortalID(line) == [kind |-> "id", prefix |-> "blame-portal-", line |-> line]

\* Bounding rectangle arithmetic of calculateOverlayPosition
calculateOverlayPosition(scrollableTop, scrollTop, scrollingLeft, targetLeft, targetTop, targetBottom, tooltipHeight) ==
    LET relLeft == targetLeft - scrollingLeft
        relTop == targetTop + scrollTop - scrollableTop
        tooltipTop == relTop - (tooltipHeight - BLOB_PADDING_TOP)
    IN IF tooltipTop - scrollTop < 0
       THEN [kind |-> "point", left |-> relLeft,
             top |-> targetBottom + scrollTop - scrollableTop]
       ELSE [kind |-> "point", left |-> relLeft, top |-> tooltipTop - BLOB_PADDING_TOP]

\* shouldRenderHover without the exemption of the pinned overlay
shouldRenderHoverUnlessMoving(state) ==
    /\ ~state.mouseIsMoving
    /\ \/ /\ truthy(state.hoverOrError)
          /\ ~(isHover(state.hoverOrError) /\ isEmptyHover(state.hoverOrError))
       \/ isJumpURL(state.definitionURLOrError)

shouldRenderHover(state) ==
    /\ ~(~state.hoverOverlayIsFixed /\ state.mouseIsMoving)
    /\ \/ /\ truthy(state.hoverOrError)
          /\ ~(isHover(state.hoverOrError) /\ isEmptyHover(state.hoverOrError))
       \/ isJumpURL(state.definitionURLOrError)


(***************************************************************************)
(* State.                                                                  *)
(***************************************************************************)
VARIABLES
    \* BlobState (this.state)
    hoverOrError,            \* undefined | LOADING | Hover | null | ErrorLike
    definitionURLOrError,    \* undefined | LOADING | { jumpURL } | null | ErrorLike
    hoverOverlayIsFixed,
    hoverOverlayPosition,    \* undefined | { left, top }
    clickedGoToDefinition,   \* false | 'same-tab' | 'new-tab'
    hoveredTokenPosition,    \* undefined | Position
    blameLineIDs,            \* line -> undefined | portal id
    activeLine,              \* 0 stands for null
    mouseIsMoving,
    \* props
    location,                \* props.location.hash
    \* refs and operator memories of the observable chains
    mounted,                 \* componentDidMount ran; the first() chain completed
    hoverOverlayElement,     \* the hover overlay element is in the DOM
    latestTarget,            \* withLatestFrom of REPOSITIONING: { target, source }
    lastCandidate,           \* distinctUntilChanged of filteredTargetPositions
    lastHashPosition,        \* distinctUntilChanged of positionsFromLocationHash
    lastScrollLine,          \* distinctUntilChanged of the scroll chain
    hoverFetches,            \* fetchHover requests in flight
    definitionFetches,       \* fetchJumpURL requests in flight
    mouseOverDebounce,       \* target waiting in debounceTime(50)
    mouseStopTimer,          \* debounceTime(TOOLTIP_DISPLAY_DELAY) is running
    \* DOM
    selectedLines,           \* rows with class 'selected'
    highlighted,             \* tokens with class 'selection-highlight'
    portalNodes,             \* line -> number of blame portal <span>s in its cell
    scrollTop,               \* blobElement.scrollTop
    \* effects and history of the last step
    navigations,             \* history.push(jumpURL) / window.open(jumpURL) calls
    defaultPrevented,        \* event.preventDefault() of the last go-to-definition click
    events,                  \* number of user events handled so far
    lastEvent,               \* the event handled by the last step
    \* calculateOverlayPosition on its own (see OverlaySpec)
    measured,                \* the bounding rectangles handed to it
    placed,                  \* the position it returned
    \* useCampaignThreads (see HookSpec)
    campaign,                \* the campaign of the last render, undefined before it
    updateSequence,          \* useState(0)
    result,                  \* useState(LOADING)
    effectDeps,              \* [campaign, updateSequence] of the last run of the effect
    queries,                 \* queryGraphQL requests in flight
    issued                   \* number of queries issued so far

blobVars == <<hoverOrError, definitionURLOrError, hoverOverlayIsFixed, hoverOverlayPosition,
              clickedGoToDefinition, hoveredTokenPosition, blameLineIDs, activeLine,
              mouseIsMoving, location, mounted, hoverOverlayElement, latestTarget,
              lastCandidate, lastHashPosition, lastScrollLine, hoverFetches,
              definitionFetches, mouseOverDebounce, mouseStopTimer, selectedLines,
              highlighted, portalNodes, scrollTop, navigations, defaultPrevented,
              events, lastEvent>>

hookVars == <<campaign, updateSequence, result, effectDeps, queries, issued>>

vars == <<blobVars, measured, placed, hookVars>>

BlobState ==
    [hoverOrError |-> hoverOrError,
     definitionURLOrError |-> definitionURLOrError,
     hoverOverlayIsFixed |-> hoverOverlayIsFixed,
     hoverOverlayPosition |-> hoverOverlayPosition,
     clickedGoToDefinition |-> clickedGoToDefinition,
     hoveredTokenPosition |-> hoveredTokenPosition,
     blameLineIDs |-> blameLineIDs,
     activeLine |-> activeLine,
     mouseIsMoving |-> mouseIsMoving]

\* The component and its surroundings at the start of a handler.  committed
\* is the state last rendered, state is what this.state reads, batches are
\* the setState calls not yet processed (React's update queue: each batch is
\* rendered once), batching tells whether setState calls join one batch.
World(batching) ==
    [state |-> BlobState,
     committed |-> BlobState,
     batches |-> <<>>,
     batching |-> batching,
     propsChanged |-> FALSE,
     location |-> location,
     mounted |-> mounted,
     hoverOverlayElement |-> hoverOverlayElement,
     latestTarget |-> latestTarget,
     lastCandidate |-> lastCandidate,
     lastHashPosition |-> lastHashPosition,
     lastScrollLine |-> lastScrollLine,
     hoverFetches |-> hoverFetches,
     definitionFetches |-> definitionFetches,
     mouseOverDebounce |-> mouseOverDebounce,
     mouseStopTimer |-> mouseStopTimer,
     selectedLines |-> selectedLines,
     highlighted |-> highlighted,
     portalNodes |-> portalNodes,
     scrollTop |-> scrollTop,
     navigations |-> navigations,
     defaultPrevented |-> defaultPrevented]

\* The events that come from the user, as opposed to timers and responses
UserEvents == {"mouseover", "click", "location", "goToDefinition", "close", "escape"}

\* The variables after a handler that ended in the world w
Becomes(w, event) ==
    /\ hoverOrError' = w.state.hoverOrError
    /\ definitionURLOrError' = w.state.definitionURLOrError
    /\ hoverOverlayIsFixed' = w.state.hoverOverlayIsFixed
    /\ hoverOverlayPosition' = w.state.hoverOverlayPosition
    /\ clickedGoToDefinition' = w.state.clickedGoToDefinition
    /\ hoveredTokenPosition' = w.state.hoveredTokenPosition
    /\ blameLineIDs' = w.state.blameLineIDs
    /\ activeLine' = w.state.activeLine
    /\ mouseIsMoving' = w.state.mouseIsMoving
    /\ location' = w.location
    /\ mounted' = w.mounted
    /\ hoverOverlayElement' = w.hoverOverlayElement
    /\ latestTarget' = w.latestTarget
    /\ lastCandidate' = w.lastCandidate
    /\ lastHashPosition' = w.lastHashPosition
    /\ lastScrollLine' = w.lastScrollLine
    /\ hoverFetches' = w.hoverFetches
    /\ definitionFetches' = w.definitionFetches
    /\ mouseOverDebounce' = w.mouseOverDebounce
    /\ mouseStopTimer' = w.mouseStopTimer
    /\ selectedLines' = w.selectedLines
    /\ highlighted' = w.highlighted
    /\ portalNodes' = w.portalNodes
    /\ scrollTop' = w.scrollTop
    /\ navigations' = w.navigations
    /\ defaultPrevented' = w.defaultPrevented
    /\ events' = IF event.type \in UserEvents THEN events + 1 ELSE events
    /\ lastEvent' = event
    /\ UNCHANGED <<measured, placed, hookVars>>

Event(type, modified) == [type |-> type, modified |-> modified]

(***************************************************************************)
(* DOM geometry: the blob element is at the top of the viewport, its       *)
(* content is the padding followed by one row per line.                    *)
(***************************************************************************)
ContentHeight == BLOB_PADDING_TOP + NumLines * LineHeight

MaxScrollTop == IF ContentHeight > BlobHeight THEN ContentHeight - BlobHeight ELSE 0

\* Assigning element.scrollTop clamps the value to the scrollable range
ClampScroll(value) ==
    IF value < 0 THEN 0 ELSE IF value > MaxScrollTop THEN MaxScrollTop ELSE value

\* getBoundingClientRect() of a row / a target, relative to the viewport
RowTop(line, scroll) == BLOB_PADDING_TOP + (line - 1) * LineHeight - scroll

TargetLeft(target) == IF target.tagName = "SPAN" THEN (target.character - 1) * CharWidth ELSE 0

(***************************************************************************)
(* DOM helpers.                                                            *)
(***************************************************************************)
\* querySelector: the first matching element in document order
FirstLine(lines) == CHOOSE l \in lines : \A m \in lines : l <= m

FirstToken(tokens) ==
    CHOOSE t \in tokens : \A u \in tokens :
        t.line < u.line \/ (t.line = u.line /\ t.character <= u.character)

\* A highlightLine that leaves the previously selected row selected
highlightLineKeepsPrevious(w, line) == [w EXCEPT !.selectedLines = @ \cup {line}]

highlightLine(w, line) ==
    LET current == w.selectedLines
        cleared == IF current # {} THEN current \ {FirstLine(current)} ELSE current
    IN [w EXCEPT !.selectedLines = cleared \cup {line}]

scrollToCenter(w, line) ==
    LET rowTop == RowTop(line, w.scrollTop)
        codeTop == RowTop(1, w.scrollTop)
    IN [w EXCEPT !.scrollTop =
            ClampScroll(rowTop - codeTop - (BlobHeight \div 2) + (LineHeight \div 2))]

scrollIntoView(w, line) ==
    LET rowTop == RowTop(line, w.scrollTop)
        rowBottom == rowTop + LineHeight
    IN IF rowTop <= 0
       THEN [w EXCEPT !.scrollTop = ClampScroll(w.scrollTop - (0 - rowTop))]
       ELSE IF rowBottom >= BlobHeight
            THEN [w EXCEPT !.scrollTop = ClampScroll(w.scrollTop + (rowBottom - BlobHeight))]
            ELSE w

(***************************************************************************)
(* setState, render and componentDidUpdate.                                *)
(***************************************************************************)
\* this.setState({ ...fields })
Partial(fields) == [kind |-> "partial", fields |-> fields]

\* The updater function of hovers.subscribe
HoverUpdater(hover) == [kind |-> "hover-updater", hoverOrError |-> hover]

\* One queued update applied to a state
applyUpdate(state, update) ==
    IF update.kind = "hover-updater"
    THEN [state EXCEPT
            !.hoverOrError = update.hoverOrError,
            !.hoverOverlayPosition = Undefined,
            !.hoverOverlayIsFixed =
                IF @
                THEN \/ truthy(update.hoverOrError)
                     \/ ~isHover(update.hoverOrError)
                     \/ ~isEmptyHover(update.hoverOrError)
                ELSE FALSE]
    ELSE [f \in DOMAIN state |->
            IF f \in DOMAIN update.fields THEN update.fields[f] ELSE state[f]]

RECURSIVE applyUpdates(_, _)
applyUpdates(state, batch) ==
    IF batch = <<>>
    THEN state
    ELSE applyUpdates(applyUpdate(state, Head(batch)), Tail(batch))

\* this.setState: inside a batch the update joins the batch and this.state
\* is unchanged; outside it is a batch of its own and processed at once
setState(w, update) ==
    IF w.batching
    THEN [w EXCEPT !.batches =
            IF @ = <<>> THEN <<<<update>>>> ELSE <<Append(@[1], update)>>]
    ELSE [w EXCEPT !.batches = Append(@, <<update>>),
                   !.state = applyUpdate(@, update)]

\* render(): the hover overlay is in the DOM iff shouldRenderHover(this.state);
\* its ref callback reports the element or null to hoverOverlayElements
render(w) == [w EXCEPT !.hoverOverlayElement = shouldRenderHover(w.state)]

(***************************************************************************)
(* HOVER FETCH and GO TO DEFINITION FETCH.                                 *)
(***************************************************************************)
\* mergeMap in place of switchMap: the previous inner observables stay
\* subscribed
mergeMap(fetches) == fetches

\* switchMap unsubscribes from the inner observable of the previous
\* candidate: the request may still be answered, but nobody listens
switchMap(fetches) ==
    {[r EXCEPT !.subscribed = FALSE, !.loader = FALSE] : r \in fetches}

Fetch(position, loader) == [position |-> position, subscribed |-> TRUE, loader |-> loader]

\* A catchError that turns every failure into an error value
hoverCatchErrorEveryFailure(position, response) ==
    IF response.ok THEN response.value ELSE ErrorLike(position)

\* catchError of hoverFetch
hoverCatchError(position, response) ==
    IF response.ok
    THEN response.value
    ELSE IF response.code = "EMODENOTFOUND" THEN Undefined ELSE ErrorLike(position)

\* map and catchError of the fetchJumpURL pipe
jumpURLCatchError(position, response) ==
    IF response.ok THEN response.value ELSE ErrorLike(position)

\* Subscribers of hovers that do not clear the current highlight
hoversSubscribeKeepsHighlight(w, hover) ==
    LET updated == setState(w, HoverUpdater(hover))
        token == IF isHover(hover) /\ hover.range # NoRange
                 THEN getTokenAtPosition(hover.range)
                 ELSE Undefined
    IN [updated EXCEPT !.highlighted =
            IF token # Undefined THEN @ \cup {token} ELSE @]

\* The two subscribers of hovers: the state update, then the range highlight
hoversSubscribe(w, hover) ==
    LET updated == setState(w, HoverUpdater(hover))
        current == w.highlighted
        cleared == IF current # {} THEN current \ {FirstToken(current)} ELSE current
        token == IF isHover(hover) /\ hover.range # NoRange
                 THEN getTokenAtPosition(hover.range)
                 ELSE Undefined
    IN [updated EXCEPT !.highlighted =
            IF token # Undefined THEN cleared \cup {token} ELSE cleared]

\* A definition subscriber that jumps in the same tab whatever the click was
definitionSubscribeSameTab(w, value) ==
    LET updated == setState(w, Partial([definitionURLOrError |-> value]))
    IN IF truthy(updated.state.clickedGoToDefinition) /\ isJumpURL(value)
       THEN [updated EXCEPT !.navigations =
                Append(@, [url |-> value, how |-> "history.push"])]
       ELSE updated

\* The subscriber of the definition chain: state update, then the jump if
\* the go-to-definition button was already clicked
definitionSubscribe(w, value) ==
    LET updated == setState(w, Partial([definitionURLOrError |-> value]))
        clicked == updated.state.clickedGoToDefinition
    IN IF truthy(clicked) /\ isJumpURL(value)
       THEN [updated EXCEPT !.navigations = Append(@,
                [url |-> value,
                 how |-> IF clicked = SameTab THEN "history.push" ELSE "window.open"])]
       ELSE updated

\* A hovers chain that emits nothing for a candidate without position
hoversSilentWithoutPosition(w, position) ==
    LET unsubscribed == [w EXCEPT !.hoverFetches = switchMap(@)]
    IN IF ~isDefined(position)
       THEN unsubscribed
       ELSE [unsubscribed EXCEPT !.hoverFetches = @ \cup {Fetch(position, TRUE)}]

\* switchMap of hovers for a new candidate
hovers(w, position) ==
    LET unsubscribed == [w EXCEPT !.hoverFetches = switchMap(@)]
    IN IF ~isDefined(position)
       THEN hoversSubscribe(unsubscribed, Undefined)
       ELSE [unsubscribed EXCEPT !.hoverFetches = @ \cup {Fetch(position, TRUE)}]

\* A definition chain that shows the loader but never issues the lookup
definitionsWithoutFetch(w, position) ==
    LET unsubscribed == [w EXCEPT !.definitionFetches = switchMap(@)]
    IN IF ~isDefined(position)
       THEN definitionSubscribe(unsubscribed, Undefined)
       ELSE definitionSubscribe(unsubscribed, LOADING)

\* A definition chain without the leading LOADING of concat
definitionsWithoutLoading(w, position) ==
    LET unsubscribed == [w EXCEPT !.definitionFetches = switchMap(@)]
    IN IF ~isDefined(position)
       THEN definitionSubscribe(unsubscribed, Undefined)
       ELSE [unsubscribed EXCEPT !.definitionFetches = @ \cup {Fetch(position, FALSE)}]

\* switchMap of the definition chain for a new candidate
definitions(w, position) ==
    LET unsubscribed == [w EXCEPT !.definitionFetches = switchMap(@)]
    IN IF ~isDefined(position)
       THEN definitionSubscribe(unsubscribed, Undefined)
       ELSE [definitionSubscribe(unsubscribed, LOADING) EXCEPT
                !.definitionFetches = @ \cup {Fetch(position, FALSE)}]

\* filteredTargetPositions without distinctUntilChanged
filteredTargetPositionsWithoutDistinct(w, target) ==
    LET position == getTargetLineAndOffset(target)
    IN setState(
           definitions(
               hovers([w EXCEPT !.lastCandidate =
                           [kind |-> "candidate", position |-> position]],
                      position),
               position),
           Partial([hoveredTokenPosition |-> position,
                    clickedGoToDefinition |-> False]))

\* filteredTargetPositions from the map on: position of the target,
\* distinctUntilChanged, then the three subscribers in subscription order
filteredTargetPositions(w, target) ==
    LET position == getTargetLineAndOffset(target)
    IN IF w.lastCandidate # Undefined /\ isEqual(position, w.lastCandidate.position)
       THEN w
       ELSE setState(
                definitions(
                    hovers([w EXCEPT !.lastCandidate =
                                [kind |-> "candidate", position |-> position]],
                           position),
                    position),
                Partial([hoveredTokenPosition |-> position,
                         clickedGoToDefinition |-> False]))

(***************************************************************************)
(* The chains fed by componentUpdates.                                     *)
(***************************************************************************)
\* targetsFromLocationHash: the token element at a position of the URL
targetsFromLocationHash(position) ==
    IF position.line \notin Lines
    THEN Undefined
    ELSE findElementWithOffset(position.line, position.character)

LatestTarget(target, source) == [kind |-> "target", target |-> target, source |-> source]

\* positionsFromLocationHash and its two subscribers: the copy of
\* targetsFromLocationHash merged into REPOSITIONING's withLatestFrom, and
\* the copy merged into filteredTargetPositions
positionsFromLocationHash(w) ==
    LET parsed == parseHash(w.location)
        position == Pos(parsed.line, parsed.character)
        target == targetsFromLocationHash(position)
    IN IF ~PositionIs(parsed) \/ isEqual(position, w.lastHashPosition)
       THEN w
       ELSE IF target = Undefined
            THEN [w EXCEPT !.lastHashPosition = position]
            ELSE filteredTargetPositions(
                     [w EXCEPT !.lastHashPosition = position,
                               !.latestTarget = LatestTarget(target, "location")],
                     target)

\* REPOSITIONING: place the overlay at the latest target
REPOSITIONING(w) ==
    IF \/ w.latestTarget = Undefined
       \/ (w.latestTarget.source = "mouseover" /\ w.state.hoverOverlayIsFixed)
       \/ ~w.hoverOverlayElement
    THEN w
    ELSE setState(w, Partial([hoverOverlayPosition |->
            calculateOverlayPosition(
                0, w.scrollTop, 0, TargetLeft(w.latestTarget.target),
                RowTop(w.latestTarget.target.line, w.scrollTop),
                RowTop(w.latestTarget.target.line, w.scrollTop) + LineHeight,
                TooltipHeight)]))

\* A createBlameDomNode that does not spread the existing blameLineIDs
createBlameDomNodeForgetsOthers(w, lineNumber) ==
    setState([w EXCEPT !.portalNodes[lineNumber] = @ + 1],
             Partial([blameLineIDs |->
                [l \in Lines |-> IF l = lineNumber THEN toPortalID(l) ELSE Undefined]]))

createBlameDomNode(w, lineNumber) ==
    setState([w EXCEPT !.portalNodes[lineNumber] = @ + 1],
             Partial([blameLineIDs |->
                [w.state.blameLineIDs EXCEPT ![lineNumber] = toPortalID(lineNumber)]]))

\* The mount chain without first(): it runs on every update
initialMountOnEveryUpdate(w) ==
    LET position == parseHash(w.location)
    IN IF position.line = 0 \/ position.line \notin Lines
       THEN [w EXCEPT !.mounted = TRUE]
       ELSE setState(
               scrollToCenter(
                   createBlameDomNode(
                       highlightLine([w EXCEPT !.mounted = TRUE], position.line),
                       position.line),
                   position.line),
               Partial([activeLine |-> position.line,
                        hoverOverlayIsFixed |-> position.character # 0]))

\* The chain that emits once, on mount: highlight the line of the hash,
\* create its blame node, scroll it to the center
initialMount(w) ==
    LET position == parseHash(w.location)
    IN IF w.mounted
       THEN w
       ELSE IF position.line = 0 \/ position.line \notin Lines
            THEN [w EXCEPT !.mounted = TRUE]
            ELSE setState(
                    scrollToCenter(
                        createBlameDomNode(
                            highlightLine([w EXCEPT !.mounted = TRUE], position.line),
                            position.line),
                        position.line),
                    Partial([activeLine |-> position.line,
                             hoverOverlayIsFixed |-> position.character # 0]))

\* A scroll chain that does not look whether the row exists
scrollOnLineChangeUnchecked(w) ==
    LET line == parseHash(w.location).line
    IN IF line = w.lastScrollLine
       THEN w
       ELSE IF line = 0
            THEN [w EXCEPT !.lastScrollLine = line]
            ELSE IF truthy(w.state.clickedGoToDefinition)
                 THEN highlightLine(
                          scrollToCenter([w EXCEPT !.lastScrollLine = line], line), line)
                 ELSE scrollIntoView([w EXCEPT !.lastScrollLine = line], line)

\* When the line in the location changes, scroll to it
scrollOnLineChange(w) ==
    LET line == parseHash(w.location).line
    IN IF line = w.lastScrollLine
       THEN w
       ELSE IF line = 0 \/ line \notin Lines
            THEN [w EXCEPT !.lastScrollLine = line]
            ELSE IF truthy(w.state.clickedGoToDefinition)
                 THEN highlightLine(
                          scrollToCenter([w EXCEPT !.lastScrollLine = line], line), line)
                 ELSE scrollIntoView([w EXCEPT !.lastScrollLine = line], line)

\* componentDidMount / componentDidUpdate: componentUpdates.next(props),
\* received by the chains in the order in which they subscribed
componentDidUpdate(w) ==
    scrollOnLineChange(initialMount(REPOSITIONING(positionsFromLocationHash(w))))

\* Process the queued batches in order: shouldComponentUpdate, render,
\* componentDidUpdate.  The setState calls of componentDidUpdate form a
\* batch that is processed when the lifecycle returns, before the rest.
RECURSIVE flush(_)
flush(w) ==
    IF w.batches = <<>>
    THEN [w EXCEPT !.state = w.committed, !.batching = FALSE]
    ELSE LET next == applyUpdates(w.committed, Head(w.batches))
         IN IF isEqual(next, w.committed) /\ ~w.propsChanged
            THEN flush([w EXCEPT !.batches = Tail(@)])
            ELSE flush([componentDidUpdate(render(
                            [w EXCEPT !.committed = next, !.state = next,
                                      !.propsChanged = FALSE, !.batching = TRUE,
                                      !.batches = <<>>]))
                        EXCEPT !.batches = @ \o Tail(w.batches)])

\* End of a React event handler or of a props change
batchedUpdates(w) == flush([w EXCEPT !.batches = IF @ = <<>> THEN <<<<>>>> ELSE @])

(***************************************************************************)
(* Event handlers.                                                         *)
(***************************************************************************)
\* A pointer-over that also unpins the overlay
nextCodeMouseOverUnpins(w, target) ==
    batchedUpdates(
        [setState(w, Partial([mouseIsMoving |-> TRUE, hoverOverlayIsFixed |-> FALSE])) EXCEPT
            !.mouseOverDebounce = target, !.mouseStopTimer = TRUE])

\* A pointer-over that makes its target a candidate at once, without the
\* debounce
nextCodeMouseOverUndebounced(w, target) ==
    batchedUpdates(
        [setState(
            IF ~w.state.hoverOverlayIsFixed
            THEN filteredTargetPositions(
                    [w EXCEPT !.latestTarget = LatestTarget(target, "mouseover")], target)
            ELSE w,
            Partial([mouseIsMoving |-> TRUE]))
         EXCEPT !.mouseOverDebounce = target, !.mouseStopTimer = TRUE])

\* onMouseOver: the pointer moves, both debounce timers restart
nextCodeMouseOver(w, target) ==
    batchedUpdates(
        [setState(w, Partial([mouseIsMoving |-> TRUE])) EXCEPT
            !.mouseOverDebounce = target, !.mouseStopTimer = TRUE])

\* codeMouseOverTargets without the filter on the pin state
codeMouseOverTargetsUnfiltered(w) ==
    flush(filteredTargetPositions(
            [w EXCEPT !.mouseOverDebounce = Undefined,
                      !.latestTarget = LatestTarget(w.mouseOverDebounce, "mouseover")],
            w.mouseOverDebounce))

\* debounceTime(50) of codeMouseOverTargets fires: the subscribers of the
\* shared chain are REPOSITIONING's merge and filteredTargetPositions
codeMouseOverTargets(w) ==
    LET latest == [w EXCEPT
            !.mouseOverDebounce = Undefined,
            !.latestTarget = LatestTarget(w.mouseOverDebounce, "mouseover")]
    IN flush(IF ~w.state.hoverOverlayIsFixed
             THEN filteredTargetPositions(latest, w.mouseOverDebounce)
             ELSE latest)

\* debounceTime(TOOLTIP_DISPLAY_DELAY) fires
mouseStopped(w) ==
    flush(setState([w EXCEPT !.mouseStopTimer = FALSE], Partial([mouseIsMoving |-> FALSE])))

\* The hash pushed for a click
clickHash(target) ==
    LET position == getTargetLineAndOffset(target)
        hash == IF position # Undefined
                THEN toPositionOrRangeHash(position)
                ELSE Hash(target.line, 0)
    IN IF hash.prefix # "#" THEN [hash EXCEPT !.prefix = "#"] ELSE hash

\* A click that pins the overlay wherever it lands
codeClickTargetsAlwaysPins(w, target) ==
    LET latest == [w EXCEPT !.latestTarget = LatestTarget(target, "click")]
    IN setState(IF w.state.hoverOverlayIsFixed
                THEN filteredTargetPositions(latest, target)
                ELSE latest,
                Partial([hoverOverlayIsFixed |-> TRUE]))

\* codeClickTargets and its subscribers: REPOSITIONING's merge,
\* filteredTargetPositions (only while pinned), then the pinning
codeClickTargets(w, target) ==
    LET latest == [w EXCEPT !.latestTarget = LatestTarget(target, "click")]
    IN setState(IF w.state.hoverOverlayIsFixed
                THEN filteredTargetPositions(latest, target)
                ELSE latest,
                Partial([hoverOverlayIsFixed |-> ~matchesTd(target)]))

\* onClick: the subscribers of codeClicks in subscription order.  The
\* history.push changes props.location within the same batch.
nextCodeClick(w, target) ==
    batchedUpdates(
        setState(
            createBlameDomNode(
                codeClickTargets(
                    [highlightLine(w, target.line) EXCEPT
                        !.location = clickHash(target), !.propsChanged = TRUE],
                    target),
                target.line),
            Partial([activeLine |-> target.line])))

\* A go-to-definition click that always prevents the default action
nextGoToDefinitionClickPrevents(w, ctrlOrMeta) ==
    batchedUpdates(
        [setState(w, Partial([clickedGoToDefinition |->
                                IF ctrlOrMeta THEN NewTab ELSE SameTab]))
         EXCEPT !.defaultPrevented = TRUE])

\* The go-to-definition button of the overlay
nextGoToDefinitionClick(w, ctrlOrMeta) ==
    batchedUpdates(
        [setState(w, Partial([clickedGoToDefinition |->
                                IF ctrlOrMeta THEN NewTab ELSE SameTab]))
         EXCEPT !.defaultPrevented = ~isJumpURL(w.state.definitionURLOrError)])

\* A close that forgets the hovered token position
closeOrEscapeKeepsPosition(w) ==
    flush(setState(w, Partial(
        [hoverOverlayIsFixed |-> FALSE,
         hoverOverlayPosition |-> Undefined,
         hoverOrError |-> Undefined,
         definitionURLOrError |-> Undefined,
         clickedGoToDefinition |-> False])))

\* The close button and the Escape key
closeOrEscape(w) ==
    flush(setState(w, Partial(
        [hoverOverlayIsFixed |-> FALSE,
         hoverOverlayPosition |-> Undefined,
         hoverOrError |-> Undefined,
         hoveredTokenPosition |-> Undefined,
         definitionURLOrError |-> Undefined,
         clickedGoToDefinition |-> False])))

\* The delayed LOADING of a hover lookup
hoverLoader(w, fetch) ==
    flush(hoversSubscribe(
            [w EXCEPT !.hoverFetches = (@ \ {fetch}) \cup {[fetch EXCEPT !.loader = FALSE]}],
            LOADING))

\* A hover answer without takeUntil: the delayed LOADING of the lookup is
\* still to come
hoverFetchKeepsLoader(w, fetch, response) ==
    IF fetch.subscribed
    THEN flush(hoversSubscribe(w, hoverCatchError(fetch.position, response)))
    ELSE [w EXCEPT !.hoverFetches = @ \ {fetch}]

\* fetchHover answers; takeUntil(hoverFetch) then cancels the loader
hoverFetch(w, fetch, response) ==
    IF fetch.subscribed
    THEN flush(hoversSubscribe([w EXCEPT !.hoverFetches = @ \ {fetch}],
                               hoverCatchError(fetch.position, response)))
    ELSE [w EXCEPT !.hoverFetches = @ \ {fetch}]

\* A definition lookup whose failure is not turned into a value
jumpURLFetchUncaught(w, fetch, response) ==
    IF fetch.subscribed /\ response.ok
    THEN flush(definitionSubscribe([w EXCEPT !.definitionFetches = @ \ {fetch}],
                                   response.value))
    ELSE [w EXCEPT !.definitionFetches = @ \ {fetch}]

\* fetchJumpURL answers
jumpURLFetch(w, fetch, response) ==
    IF fetch.subscribed
    THEN flush(definitionSubscribe([w EXCEPT !.definitionFetches = @ \ {fetch}],
                                   jumpURLCatchError(fetch.position, response)))
    ELSE [w EXCEPT !.definitionFetches = @ \ {fetch}]

\* The props change from outside
locationChanged(w, hash) ==
    batchedUpdates([w EXCEPT !.location = hash, !.propsChanged = TRUE])

\* First render, then componentDidMount
componentDidMount(w) ==
    flush([componentDidUpdate(render([w EXCEPT !.batching = TRUE])) EXCEPT !.batching = FALSE])

(***************************************************************************)
(* The state machine.                                                      *)
(***************************************************************************)
\* Hashes the location gets from outside: none, a line, a position, and a
\* position past the end of the file
LocationHashes ==
    {EmptyHash, Hash(NumLines, 0), Hash(1, 1), Hash(NumLines + 1, 1)}

\* The component after its constructor
BlobInit ==
    /\ hoverOrError = Undefined
    /\ definitionURLOrError = Undefined
    /\ hoverOverlayIsFixed = FALSE
    /\ hoverOverlayPosition = Undefined
    /\ clickedGoToDefinition = False
    /\ hoveredTokenPosition = Undefined
    /\ blameLineIDs = [l \in Lines |-> Undefined]
    /\ activeLine = 0
    /\ mouseIsMoving = FALSE
    /\ location \in LocationHashes
    /\ mounted = FALSE
    /\ hoverOverlayElement = FALSE
    /\ latestTarget = Undefined
    /\ lastCandidate = Undefined
    /\ lastHashPosition = Undefined
    /\ lastScrollLine = -1
    /\ hoverFetches = {}
    /\ definitionFetches = {}
    /\ mouseOverDebounce = Undefined
    /\ mouseStopTimer = FALSE
    /\ selectedLines = {}
    /\ highlighted = {}
    /\ portalNodes = [l \in Lines |-> 0]
    /\ scrollTop = 0
    /\ navigations = <<>>
    /\ defaultPrevented = FALSE
    /\ events = 0
    /\ lastEvent = Event("constructor", FALSE)

\* useCampaignThreads before the first render
HookIdle ==
    /\ campaign = Undefined
    /\ updateSequence = 0
    /\ result = LOADING
    /\ effectDeps = Undefined
    /\ queries = {}
    /\ issued = 0

Init ==
    /\ BlobInit
    /\ measured = Undefined
    /\ placed = Undefined
    /\ HookIdle

Mount ==
    /\ ~mounted
    /\ Becomes(componentDidMount(World(FALSE)), Event("mount", FALSE))

CodeMouseOver(target) ==
    /\ mounted
    /\ events < MaxEvents
    /\ Becomes(nextCodeMouseOver(World(TRUE), target), Event("mouseover", FALSE))

MouseOverSettles ==
    /\ mounted
    /\ mouseOverDebounce # Undefined
    /\ Becomes(codeMouseOverTargets(World(FALSE)), Event("settle", FALSE))

\* The 100ms timer started with the 50ms one fires after it
MouseStops ==
    /\ mounted
    /\ mouseStopTimer
    /\ mouseOverDebounce = Undefined
    /\ Becomes(mouseStopped(World(FALSE)), Event("stop", FALSE))

CodeClick(target) ==
    /\ mounted
    /\ events < MaxEvents
    /\ Becomes(nextCodeClick(World(TRUE), target), Event("click", FALSE))

\* The location changes from outside (back/forward, a link)
LocationChange(hash) ==
    /\ mounted
    /\ events < MaxEvents
    /\ hash # location
    /\ Becomes(locationChanged(World(TRUE), hash), Event("location", FALSE))

HoverLoaderFires(fetch) ==
    /\ fetch.subscribed
    /\ fetch.loader
    /\ Becomes(hoverLoader(World(FALSE), fetch), Event("loader", FALSE))

HoverFetchResponds(fetch, response) ==
    Becomes(hoverFetch(World(FALSE), fetch, response), Event("hover", FALSE))

JumpURLFetchResponds(fetch, response) ==
    Becomes(jumpURLFetch(World(FALSE), fetch, response), Event("definition", FALSE))

GoToDefinitionClick(ctrlOrMeta) ==
    /\ hoverOverlayElement
    /\ events < MaxEvents
    /\ Becomes(nextGoToDefinitionClick(World(TRUE), ctrlOrMeta),
               Event("goToDefinition", ctrlOrMeta))

CloseButtonClick ==
    /\ hoverOverlayElement
    /\ hoverOverlayIsFixed
    /\ events < MaxEvents
    /\ Becomes(closeOrEscape(World(TRUE)), Event("close", FALSE))

EscapeKey ==
    /\ mounted
    /\ events < MaxEvents
    /\ Becomes(closeOrEscape(World(FALSE)), Event("escape", FALSE))

\* Some hover lookup in flight is answered
HoverLookupAnswers ==
    \E fetch \in hoverFetches :
        \E response \in HoverResponses(fetch.position) : HoverFetchResponds(fetch, response)

\* Some definition lookup in flight is answered
JumpURLLookupAnswers ==
    \E fetch \in definitionFetches :
        \E response \in JumpURLResponses(fetch.position) : JumpURLFetchResponds(fetch, response)

Next ==
    \/ Mount
    \/ \E target \in Targets : CodeMouseOver(target)
    \/ MouseOverSettles
    \/ MouseStops
    \/ \E target \in Targets : CodeClick(target)
    \/ \E hash \in LocationHashes : LocationChange(hash)
    \/ \E fetch \in hoverFetches : HoverLoaderFires(fetch)
    \/ HoverLookupAnswers
    \/ JumpURLLookupAnswers
    \/ \E ctrlOrMeta \in BOOLEAN : GoToDefinitionClick(ctrlOrMeta)
    \/ CloseButtonClick
    \/ EscapeKey

Spec == Init /\ [][Next]_vars

\* Every lookup is eventually answered (with a value or a failure): weak
\* fairness of the two answers and of the mount, each written out as
\* "infinitely often disabled or infinitely often taken". An answer is
\* enabled exactly while a lookup is in flight, the mount while not mounted.
LiveSpec ==
    /\ Init
    /\ [][Next]_vars
    /\ ([]<>mounted \/ []<><<Mount>>_vars)
    /\ ([]<>(hoverFetches = {}) \/ []<><<HoverLookupAnswers>>_vars)
    /\ ([]<>(definitionFetches = {}) \/ []<><<JumpURLLookupAnswers>>_vars)

(***************************************************************************)
(* calculateOverlayPosition on its own: the rectangles are drawn from a    *)
(* bounded set, the one action applies the function to them.               *)
(***************************************************************************)
\* What getBoundingClientRect() and scrollTop report for a scrollable
\* element whose top is at scrollableTop in the viewport and which is
\* scrolled by scroll, a target offset pixels below the top of its content,
\* and a tooltip of the given height
Measurement(scrollableTop, scroll, offset, tooltipHeight) ==
    [kind |-> "measurement",
     scrollableTop |-> scrollableTop,
     scrollTop |-> scroll,
     scrollingLeft |-> 0,
     targetLeft |-> 0,
     targetTop |-> scrollableTop + offset - scroll,
     targetBottom |-> scrollableTop + offset - scroll + LineHeight,
     tooltipHeight |-> tooltipHeight]

Measurements ==
    {Measurement(scrollableTop, scroll, offset, tooltipHeight) :
        scrollableTop \in {0, LineHeight},
        scroll \in {0, LineHeight},
        offset \in 0..MaxOffset,
        tooltipHeight \in {TooltipHeight, 2 * TooltipHeight}}

OverlayInit ==
    /\ BlobInit
    /\ location = EmptyHash
    /\ measured \in Measurements
    /\ placed = Undefined
    /\ HookIdle

CalculateOverlayPosition ==
    /\ measured # Undefined
    /\ placed = Undefined
    /\ placed' = calculateOverlayPosition(
                    measured.scrollableTop, measured.scrollTop, measured.scrollingLeft,
                    measured.targetLeft, measured.targetTop, measured.targetBottom,
                    measured.tooltipHeight)
    /\ UNCHANGED <<blobVars, measured, hookVars>>

OverlayNext == CalculateOverlayPosition

OverlaySpec == OverlayInit /\ [][OverlayNext]_vars

(***************************************************************************)
(* useCampaignThreads: the hook is rendered with a campaign, its effect    *)
(* runs after a render whose dependencies changed, queries are answered.   *)
(***************************************************************************)
\* The campaign objects the hook is rendered with: the dependencies of the
\* effect are compared by identity, and two objects can have the same id
Campaign(id, object) == [kind |-> "campaign", id |-> id, object |-> object]
Campaigns == {Campaign(id, object) : id \in 1..NumCampaigns, object \in {"a", "b"}}

\* A queryGraphQL request: the n-th issued, for the campaign id
Query(n, id) == [query |-> n, campaign |-> id, subscribed |-> TRUE]

\* What the GraphQL API can answer: the threads of the campaign, a node
\* that is null or of another type, errors in the response, or no response
QueryResponses == {"threads", "null-node", "other-node", "graphql-errors", "network-error"}

ThreadConnection(query) == [kind |-> "threads", of |-> query.query, campaign |-> query.campaign]

\* asError(err)
asError(query, message) == [kind |-> "error", of |-> query.query, message |-> message]

\* map(dataOrThrowErrors), map(node => threads): the value or the error
\* the pipe hands to the subscriber
queryPipe(query, response) ==
    IF response = "network-error"
    THEN asError(query, "network")
    ELSE IF response = "graphql-errors"
         THEN asError(query, "graphql")
         ELSE IF response \in {"null-node", "other-node"}
              THEN asError(query, "not a campaign")
              ELSE ThreadConnection(query)

\* An effect whose cleanup does not unsubscribe
effectCleanupLeak(inFlight) == inFlight

\* The cleanup of the effect: subscription.unsubscribe()
effectCleanup(inFlight) == {[q EXCEPT !.subscribed = FALSE] : q \in inFlight}

\* The dependencies of the effect in the current render
Deps == [kind |-> "deps", campaign |-> campaign, updateSequence |-> updateSequence]

HookInit ==
    /\ BlobInit
    /\ location = EmptyHash
    /\ measured = Undefined
    /\ placed = Undefined
    /\ HookIdle

\* The effect of the last render is still to run
EffectPending == campaign # Undefined /\ effectDeps # Deps

\* The parent renders the hook with a campaign (the first render, or a
\* render with another campaign object).  React runs the effects of a
\* render before it starts the next one.
HookRender(c) ==
    /\ issued < MaxQueries
    /\ ~EffectPending
    /\ c # campaign
    /\ campaign' = c
    /\ UNCHANGED <<updateSequence, result, effectDeps, queries, issued>>
    /\ UNCHANGED <<blobVars, measured, placed>>

\* The caller invokes the returned callback: setUpdateSequence(updateSequence + 1)
HookUpdate ==
    /\ campaign # Undefined
    /\ issued < MaxQueries
    /\ ~EffectPending
    /\ updateSequence' = updateSequence + 1
    /\ UNCHANGED <<campaign, result, effectDeps, queries, issued>>
    /\ UNCHANGED <<blobVars, measured, placed>>

\* After a render whose dependencies differ from those of the last run:
\* the cleanup of the last run, then the effect, whose startWith(LOADING)
\* calls setResult when it subscribes
HookEffect ==
    /\ EffectPending
    /\ queries' = effectCleanup(queries) \cup {Query(issued + 1, campaign.id)}
    /\ issued' = issued + 1
    /\ result' = LOADING
    /\ effectDeps' = Deps
    /\ UNCHANGED <<campaign, updateSequence>>
    /\ UNCHANGED <<blobVars, measured, placed>>

\* A query is answered: setResult(value) or setResult(asError(err)) if the
\* subscription still exists
HookQueryResponds(query, response) ==
    /\ query \in queries
    /\ queries' = queries \ {query}
    /\ result' = IF query.subscribed THEN queryPipe(query, response) ELSE result
    /\ UNCHANGED <<campaign, updateSequence, effectDeps, issued>>
    /\ UNCHANGED <<blobVars, measured, placed>>

HookNext ==
    \/ \E c \in Campaigns : HookRender(c)
    \/ HookUpdate
    \/ HookEffect
    \/ \E query \in queries : \E response \in QueryResponses : HookQueryResponds(query, response)

HookSpec == HookInit /\ [][HookNext]_vars

(***************************************************************************)
(* Properties.                                                             *)
(***************************************************************************)
\* The kinds of value a lookup produces (as opposed to undefined and LOADING)
ResultKinds == {"hover", "jumpURL", "null", "error"}

\* The position of the latest candidate, undefined before the first one
CandidatePosition == IF lastCandidate = Undefined THEN Undefined ELSE lastCandidate.position

\* C1 (switch to latest): a step in which the answer to a lookup for a
\* position other than the latest candidate's arrives changes neither
\* hoverOrError nor definitionURLOrError, and whenever one of the two
\* changes to a lookup result, it is the result of the lookup for the latest
\* candidate position.  Hover and definition are stated independently.
C1_SwitchToLatest ==
    [][/\ lastEvent'.type = "hover" =>
            \A r \in hoverFetches \ hoverFetches' :
                r.position # CandidatePosition => hoverOrError' = hoverOrError
       /\ lastEvent'.type = "definition" =>
            \A r \in definitionFetches \ definitionFetches' :
                r.position # CandidatePosition =>
                    definitionURLOrError' = definitionURLOrError
       /\ (hoverOrError' # hoverOrError /\ hoverOrError'.kind \in ResultKinds) =>
            hoverOrError'.of = CandidatePosition'
       /\ (definitionURLOrError' # definitionURLOrError
              /\ definitionURLOrError'.kind \in ResultKinds) =>
            definitionURLOrError'.of = CandidatePosition']_vars

\* Witness of C1: the answer of a hover lookup has just arrived while the
\* lookup of the latest candidate is still awaited, so the answer was that
\* of a superseded lookup
C1_Witness_StaleAnswer ==
    /\ lastEvent.type = "hover"
    /\ \E r \in hoverFetches : r.subscribed /\ r.position = CandidatePosition

\* The lookups answered in the step
AnsweredHover == hoverFetches \ hoverFetches'
AnsweredDefinition == definitionFetches \ definitionFetches'

\* An empty hover result: undefined, null, or a Hover with empty contents
EmptyHoverResult(hover) == ~truthy(hover) \/ (isHover(hover) /\ isEmptyHover(hover))

\* C2 as stated: hoverOverlayIsFixed becomes true only in a click step, and
\* becomes false only on close/Escape, a click on a non-token area or a hover
\* result; the pointer-over handler and its timers never change it, and the
\* two mouseIsMoving handlers change no other field the handlers set.
C2_PinOnlyByClick ==
    [][/\ (~hoverOverlayIsFixed /\ hoverOverlayIsFixed') => lastEvent'.type = "click"
       /\ (hoverOverlayIsFixed /\ ~hoverOverlayIsFixed') =>
            \/ lastEvent'.type \in {"close", "escape", "hover"}
            \/ lastEvent'.type = "click" /\ matchesTd(latestTarget'.target)
       /\ lastEvent'.type \in {"mouseover", "settle", "stop"} =>
            hoverOverlayIsFixed' = hoverOverlayIsFixed
       /\ lastEvent'.type \in {"mouseover", "stop"} =>
            /\ mouseIsMoving' = (lastEvent'.type = "mouseover")
            /\ UNCHANGED <<hoverOrError, definitionURLOrError, clickedGoToDefinition,
                           hoveredTokenPosition, blameLineIDs, activeLine>>]_vars

\* C2 as amended: as C2, but hoverOverlayIsFixed also becomes true in the
\* mount step when the hash of the location has a character.
C2_PinOnlyByClickOrMount ==
    [][/\ (~hoverOverlayIsFixed /\ hoverOverlayIsFixed') =>
            \/ lastEvent'.type = "click"
            \/ lastEvent'.type = "mount" /\ parseHash(location).character # 0
       /\ (hoverOverlayIsFixed /\ ~hoverOverlayIsFixed') =>
            \/ lastEvent'.type \in {"close", "escape", "hover"}
            \/ lastEvent'.type = "click" /\ matchesTd(latestTarget'.target)
       /\ lastEvent'.type \in {"mouseover", "settle", "stop"} =>
            hoverOverlayIsFixed' = hoverOverlayIsFixed
       /\ lastEvent'.type \in {"mouseover", "stop"} =>
            /\ mouseIsMoving' = (lastEvent'.type = "mouseover")
            /\ UNCHANGED <<hoverOrError, definitionURLOrError, clickedGoToDefinition,
                           hoveredTokenPosition, blameLineIDs, activeLine>>]_vars

\* Witness of C2: the overlay is pinned right after the mount
C2_Witness_PinnedByMount == lastEvent.type = "mount" /\ hoverOverlayIsFixed

\* C3: when the result of a hover lookup is applied while the overlay is
\* pinned, the overlay is unpinned afterwards if the result is empty and
\* stays pinned if it is not.
C3_EmptyHoverUnpins ==
    [][(/\ lastEvent'.type = "hover"
        /\ \E r \in AnsweredHover : r.subscribed
        /\ hoverOverlayIsFixed) =>
            hoverOverlayIsFixed' = ~EmptyHoverResult(hoverOrError')]_vars

\* C4: after the close button or Escape the overlay is unpinned, the hover
\* and definition results, the hovered position and the overlay position
\* are undefined and clickedGoToDefinition is false.
C4_CloseResets ==
    lastEvent.type \in {"close", "escape"} =>
        /\ hoverOverlayIsFixed = FALSE
        /\ hoverOrError = Undefined
        /\ definitionURLOrError = Undefined
        /\ hoveredTokenPosition = Undefined
        /\ hoverOverlayPosition = Undefined
        /\ clickedGoToDefinition = False

\* Witness of C4: the close button (there only while the overlay is shown
\* and pinned) was clicked, with a lookup still in flight
C4_Witness_Closed ==
    /\ lastEvent.type = "close"
    /\ latestTarget # Undefined
    /\ \E r \in definitionFetches : r.subscribed

\* C5: after Escape or close on a pinned overlay that shows a hover result
\* with a range, no token has the class selection-highlight.
C5_NoResidualHighlight ==
    [][(/\ lastEvent'.type \in {"close", "escape"}
        /\ hoverOverlayIsFixed
        /\ isHover(hoverOrError)
        /\ hoverOrError.range # NoRange) => highlighted' = {}]_vars

\* C6: a step produces a new candidate only if it is a pointer-over settle
\* with the overlay not pinned before the step, a click with the overlay
\* pinned before the step, or a step (mount, location change, or the
\* location change a click pushes) in which the position of the hash changes.
C6_CandidateSources ==
    [][lastCandidate' # lastCandidate =>
        \/ lastEvent'.type = "settle" /\ ~hoverOverlayIsFixed
        \/ lastEvent'.type = "click" /\ hoverOverlayIsFixed
        \/ /\ lastEvent'.type \in {"click", "location", "mount"}
           /\ lastHashPosition' # lastHashPosition
           /\ CandidatePosition' = lastHashPosition']_vars

\* Witness of C6: the only user event so far was a click, and it produced a
\* candidate without position: the click hit a cell while the overlay was
\* pinned by the mount
C6_Witness_ClickCandidate ==
    /\ lastEvent.type = "click"
    /\ events = 1
    /\ lastCandidate # Undefined
    /\ lastCandidate.position = Undefined

\* The navigation the code makes for a jump URL and a click memory
Navigation(url, clicked) ==
    [url |-> url, how |-> IF clicked = SameTab THEN "history.push" ELSE "window.open"]

\* C7: a navigation happens only in the step in which the definition lookup
\* of the latest candidate is answered with a URL and the go-to-definition
\* button was clicked before; it is then exactly one navigation, to that URL,
\* history.push for a plain click and window.open for a ctrl/meta click.
\* The click memory is set only by the button and is cleared by every new
\* candidate and by close/Escape, so that none of these lies between the
\* click and the answer.
C7_JumpOnceOnAnswer ==
    [][/\ navigations' # navigations =>
            /\ lastEvent'.type = "definition"
            /\ \E r \in AnsweredDefinition : r.position = CandidatePosition
            /\ isJumpURL(definitionURLOrError')
            /\ definitionURLOrError'.of = CandidatePosition
            /\ clickedGoToDefinition # False
            /\ navigations' =
                 Append(navigations, Navigation(definitionURLOrError', clickedGoToDefinition))
       /\ (/\ lastEvent'.type = "definition"
           /\ \E r \in AnsweredDefinition : r.subscribed
           /\ isJumpURL(definitionURLOrError')
           /\ clickedGoToDefinition # False) =>
                Len(navigations') = Len(navigations) + 1
       /\ (clickedGoToDefinition' # clickedGoToDefinition
              /\ clickedGoToDefinition' # False) =>
            /\ lastEvent'.type = "goToDefinition"
            /\ clickedGoToDefinition' = IF lastEvent'.modified THEN NewTab ELSE SameTab
       /\ (lastCandidate' # lastCandidate \/ lastEvent'.type \in {"close", "escape"}) =>
            clickedGoToDefinition' = False]_vars

\* Witness of C7: the answer of the definition lookup has just opened the
\* URL in a new tab
C7_Witness_OpenedNewTab ==
    /\ lastEvent.type = "definition"
    /\ Len(navigations) = 1
    /\ navigations[1].how = "window.open"
    /\ navigations[1].url = definitionURLOrError

\* C8: a click on the go-to-definition button has its default prevented iff
\* definitionURLOrError is not a jump URL at the time of the click, and
\* records 'new-tab' if ctrl or meta was held and 'same-tab' otherwise.
C8_PreventDefaultIffNoURL ==
    [][lastEvent'.type = "goToDefinition" =>
        /\ defaultPrevented' = ~isJumpURL(definitionURLOrError)
        /\ clickedGoToDefinition' = IF lastEvent'.modified THEN NewTab ELSE SameTab]_vars

\* Witness of C8: a ctrl/meta click on the button with the URL known, whose
\* default action was allowed
C8_Witness_DefaultAllowed ==
    /\ lastEvent.type = "goToDefinition"
    /\ lastEvent.modified
    /\ ~defaultPrevented
    /\ isJumpURL(definitionURLOrError)

\* A hover result that is not empty, or a found definition
SomethingToShow ==
    \/ truthy(hoverOrError) /\ ~(isHover(hoverOrError) /\ isEmptyHover(hoverOrError))
    \/ isJumpURL(definitionURLOrError)

\* C9 as stated: the overlay is in the DOM iff the pointer is not moving and
\* there is a non-empty hover result or a found definition.
C9_RenderedIffNotMoving ==
    mounted => (hoverOverlayElement <=> (~mouseIsMoving /\ SomethingToShow))

\* C9 as amended: the overlay is in the DOM iff (the overlay is pinned or
\* the pointer is not moving) and there is a non-empty hover result or a
\* found definition.
C9_RenderedIffPinnedOrNotMoving ==
    mounted =>
        (hoverOverlayElement <=> ((hoverOverlayIsFixed \/ ~mouseIsMoving) /\ SomethingToShow))

\* Witness of C9: the pinned overlay is shown while the pointer moves
C9_Witness_PinnedShownWhileMoving ==
    hoverOverlayIsFixed /\ mouseIsMoving /\ hoverOverlayElement

\* The lookup of the latest candidate, at position p, is awaited
HoverAwaited(p) ==
    CandidatePosition = p /\ \E r \in hoverFetches : r.subscribed /\ r.position = p

DefinitionAwaited(p) ==
    CandidatePosition = p /\ \E r \in definitionFetches : r.subscribed /\ r.position = p

\* The UI is pending for the latest candidate, at position p: a lookup for
\* p is awaited, or hoverOrError or definitionURLOrError is LOADING
PendingFor(p) ==
    /\ CandidatePosition = p
    /\ \/ HoverAwaited(p)
       \/ DefinitionAwaited(p)
       \/ hoverOrError = LOADING
       \/ definitionURLOrError = LOADING

\* C10: if every lookup is eventually answered, then for every candidate
\* position p the UI does not stay pending for p forever: either p stops
\* being the latest candidate, or both lookups for p are answered and neither
\* hoverOrError nor definitionURLOrError is LOADING.
C10_NeverPendingForever ==
    \A p \in Positions : PendingFor(p) ~> ~PendingFor(p)

\* Witness of C10: both the hover and the definition of the latest candidate
\* show LOADING while their lookups are awaited
C10_Witness_BothLoading ==
    /\ hoverOrError = LOADING
    /\ definitionURLOrError = LOADING
    /\ \E p \in Positions : HoverAwaited(p) /\ DefinitionAwaited(p)

\* C11: when the hover lookup of the latest candidate fails with
\* EMODENOTFOUND, hoverOrError is undefined afterwards (and no error value);
\* when it fails with any other error, hoverOrError is an ErrorLike value.
C11_ModeNotFoundIsEmpty ==
    [][lastEvent'.type = "hover" =>
        \A fetch \in hoverFetches :
            \A response \in HoverResponses(fetch.position) :
                (/\ fetch.subscribed
                 /\ ~response.ok
                 /\ HoverFetchResponds(fetch, response)) =>
                    IF response.code = "EMODENOTFOUND"
                    THEN hoverOrError' = Undefined /\ ~isErrorLike(hoverOrError')
                    ELSE isErrorLike(hoverOrError')]_vars

\* Witness of C11: right after the mount, the only lookup issued was
\* answered and hoverOrError is undefined: the answer was EMODENOTFOUND
C11_Witness_ModeNotFound ==
    /\ lastEvent.type = "hover"
    /\ events = 0
    /\ CandidatePosition \in Positions
    /\ hoverFetches = {}
    /\ hoverOrError = Undefined

\* C12: the answer of the subscribed hover or definition lookup, a failure
\* included, is written to the state as a value; and whatever answers came
\* before, every step that makes a position the new candidate leaves a hover
\* lookup and a definition lookup for it in flight and subscribed.
C12_FailuresAreValues ==
    [][/\ lastEvent'.type = "hover" =>
            \A fetch \in hoverFetches :
                \A response \in HoverResponses(fetch.position) :
                    (fetch.subscribed /\ HoverFetchResponds(fetch, response)) =>
                        /\ response.ok => hoverOrError' = response.value
                        /\ ~response.ok => hoverOrError' \in {Undefined, ErrorLike(fetch.position)}
                        /\ fetch \notin hoverFetches'
       /\ lastEvent'.type = "definition" =>
            \A fetch \in definitionFetches :
                \A response \in JumpURLResponses(fetch.position) :
                    (fetch.subscribed /\ JumpURLFetchResponds(fetch, response)) =>
                        /\ response.ok => definitionURLOrError' = response.value
                        /\ ~response.ok => definitionURLOrError' = ErrorLike(fetch.position)
                        /\ fetch \notin definitionFetches'
       /\ (lastCandidate' # lastCandidate /\ CandidatePosition' \in Positions) =>
            /\ HoverAwaited(CandidatePosition)'
            /\ DefinitionAwaited(CandidatePosition)'
            /\ \A r \in (hoverFetches' \cup definitionFetches') :
                    r.subscribed => r.position = CandidatePosition']_vars

\* Witness of C12: the hover lookup of an earlier candidate has failed, and
\* both lookups of the new candidate are in flight
C12_Witness_LookupsAfterFailures ==
    /\ isErrorLike(hoverOrError)
    /\ hoverOrError.of # CandidatePosition
    /\ HoverAwaited(CandidatePosition)
    /\ DefinitionAwaited(CandidatePosition)

\* The element a click step has just hit
ClickedTarget == latestTarget.target

\* C13: after a click on a table cell hoverOverlayIsFixed is false, after a
\* click on a token it is true, whatever it was before.
C13_ClickSetsPin ==
    [][lastEvent'.type = "click" =>
        /\ ClickedTarget' \in Targets
        /\ matchesTd(ClickedTarget') => ~hoverOverlayIsFixed'
        /\ ~matchesTd(ClickedTarget') => hoverOverlayIsFixed']_vars

\* Witness of C13: the mount pinned the overlay at the position of the hash,
\* and the only user event, a click on a cell, has unpinned it
C13_Witness_CellClickUnpins ==
    /\ lastEvent.type = "click"
    /\ events = 1
    /\ lastHashPosition \in Positions
    /\ matchesTd(ClickedTarget)
    /\ ~hoverOverlayIsFixed

\* C14: after a click on a row, whether on a token or on the cell, that row
\* is the only selected row, and the location pushed has a hash that starts
\* with '#' and is that of the clicked position if the click hit a token,
\* '#L<line>' of the clicked row otherwise.
C14_ClickSelectsRowAndPushesHash ==
    [][lastEvent'.type = "click" =>
        /\ selectedLines' = {ClickedTarget'.line}
        /\ location'.prefix = "#"
        /\ location'.line = ClickedTarget'.line
        /\ location'.character =
             IF matchesTd(ClickedTarget') THEN 0 ELSE ClickedTarget'.character
        /\ parseHash(location').line = ClickedTarget'.line]_vars

\* Witness of C14: the mount selected line 1, the click (the only user
\* event) hit the cell of another line, which is now the selected one
C14_Witness_OtherRowSelected ==
    /\ lastEvent.type = "click"
    /\ events = 1
    /\ blameLineIDs[1] # Undefined
    /\ matchesTd(ClickedTarget)
    /\ ClickedTarget.line = 2
    /\ selectedLines = {2}
    /\ location = Hash(2, 0)

\* C15: recording the annotation anchor of a line is idempotent: whatever
\* the clicks and the mount, a line that has an entry in blameLineIDs has
\* exactly one blame portal node in its cell, and a line without entry none.
C15_OneAnchorPerLine ==
    \A l \in Lines :
        portalNodes[l] = IF blameLineIDs[l] = Undefined THEN 0 ELSE 1

\* C16: an entry of blameLineIDs is never removed and never changes; an
\* entry is added only in a click step, for the clicked line, or in the mount
\* step, for the line of the hash, and it is blame-portal-<line>.
C16_BlameLineIDsGrow ==
    [][\A l \in Lines :
        /\ blameLineIDs[l] # Undefined => blameLineIDs'[l] = blameLineIDs[l]
        /\ (blameLineIDs[l] = Undefined /\ blameLineIDs'[l] # Undefined) =>
            /\ blameLineIDs'[l] = toPortalID(l)
            /\ blameLineIDs'[l].prefix = "blame-portal-" /\ blameLineIDs'[l].line = l
            /\ \/ lastEvent'.type = "click" /\ ClickedTarget'.line = l
               \/ lastEvent'.type = "mount" /\ parseHash(location).line = l]_vars

\* Witness of C16: the entry of line 1 came with the mount, the entry of
\* line 2 with a click, and both are there
C16_Witness_TwoEntries ==
    /\ lastEvent.type = "click"
    /\ events = 1
    /\ ClickedTarget.line = 2
    /\ blameLineIDs[1] = toPortalID(1)
    /\ blameLineIDs[2] = toPortalID(2)

\* What the view shows, apart from the presence and the place of the overlay
ShownState ==
    <<hoverOrError, definitionURLOrError, hoverOverlayIsFixed,
      clickedGoToDefinition, hoveredTokenPosition, blameLineIDs, activeLine,
      selectedLines, highlighted, portalNodes, scrollTop, location>>

\* The lookups in flight and the memory of the candidate chain
LookupState == <<hoverFetches, definitionFetches, lastCandidate>>

\* In a settle step only the settled target (the last one of the burst) can
\* become the candidate and have lookups started
SettleUsesLastTarget ==
    lastEvent'.type = "settle" =>
        /\ mouseOverDebounce' = Undefined
        /\ lastCandidate' # lastCandidate =>
            CandidatePosition' = getTargetLineAndOffset(mouseOverDebounce)
        /\ \A r \in (hoverFetches' \ hoverFetches) \cup (definitionFetches' \ definitionFetches) :
            r.subscribed => r.position = getTargetLineAndOffset(mouseOverDebounce)

\* C17 as stated: a pointer-over step starts or cancels no lookup, makes no
\* candidate and changes nothing of what the view shows, the overlay
\* included; the target it replaces in the debounce is never used; only the
\* target that settles can become the candidate and start lookups.
C17_IntermediateTargetsInvisible ==
    [][/\ lastEvent'.type = "mouseover" =>
            /\ UNCHANGED LookupState
            /\ UNCHANGED ShownState
            /\ hoverOverlayPosition' = hoverOverlayPosition
            /\ hoverOverlayElement' = hoverOverlayElement
       /\ SettleUsesLastTarget]_vars

\* C17 as amended: as C17, except that a pointer-over step sets
\* mouseIsMoving to true; the rerender that follows removes the overlay from
\* the view if it is shown and not pinned, and places a pinned overlay anew
\* at its target (its position changes if it was out of date).  A
\* pointer-over that replaces a target still waiting in the debounce changes
\* nothing at all.
C17_IntermediateTargetsOnlyHideOverlay ==
    [][/\ lastEvent'.type = "mouseover" =>
            /\ UNCHANGED LookupState
            /\ UNCHANGED ShownState
            /\ mouseIsMoving'
            /\ hoverOverlayElement' = (hoverOverlayElement /\ hoverOverlayIsFixed)
            /\ hoverOverlayPosition' # hoverOverlayPosition =>
                    /\ ~mouseIsMoving
                    /\ hoverOverlayIsFixed /\ hoverOverlayElement'
                    /\ latestTarget # Undefined /\ latestTarget.source # "mouseover"
                    /\ hoverOverlayPosition' # Undefined
            /\ mouseOverDebounce # Undefined =>
                    /\ mouseIsMoving
                    /\ hoverOverlayElement' = hoverOverlayElement
                    /\ hoverOverlayPosition' = hoverOverlayPosition
       /\ SettleUsesLastTarget]_vars

\* Witness of C17: after a pointer-over the overlay, which is not pinned,
\* has something to show and was placed when it was last rendered, is not
\* in the view
C17_Witness_OverlayHiddenByPointer ==
    /\ lastEvent.type = "mouseover"
    /\ mouseOverDebounce # Undefined
    /\ ~hoverOverlayIsFixed
    /\ SomethingToShow
    /\ hoverOverlayPosition # Undefined
    /\ ~hoverOverlayElement

\* The scrollTop that puts the middle of the row of a line, measured from
\* the top of the code element, at the middle of the blob element, as far as
\* the scrollable range allows
CenteredScrollTop(line) ==
    ClampScroll((line - 1) * LineHeight + (LineHeight \div 2) - (BlobHeight \div 2))

\* C18: the mount with a hash that has an existing line and no character
\* selects the row of the line (and no other), gives the line its entry in
\* blameLineIDs and one portal node, sets activeLine to the line, scrolls
\* the row to the center and leaves the overlay unpinned, with no candidate
\* and no lookup.  The initialisation runs once: the mount step happens once,
\* and no later change of the location creates an entry, sets activeLine or
\* changes the pin.
C18_MountWithLineHash ==
    [][/\ (/\ lastEvent'.type = "mount"
           /\ parseHash(location).line \in Lines
           /\ parseHash(location).character = 0) =>
            LET line == parseHash(location).line
            IN /\ selectedLines' = {line}
               /\ blameLineIDs' = [l \in Lines |->
                                     IF l = line THEN toPortalID(l) ELSE Undefined]
               /\ portalNodes' = [l \in Lines |-> IF l = line THEN 1 ELSE 0]
               /\ activeLine' = line
               /\ scrollTop' = CenteredScrollTop(line)
               /\ ~hoverOverlayIsFixed'
               /\ lastCandidate' = Undefined
               /\ hoverFetches' = {} /\ definitionFetches' = {}
       /\ lastEvent'.type = "mount" => ~mounted /\ mounted'
       /\ mounted => mounted'
       /\ lastEvent'.type = "location" =>
            UNCHANGED <<blameLineIDs, portalNodes, activeLine, hoverOverlayIsFixed>>]_vars

\* Witness of C18: the mount with the hash of the last line has scrolled
\* the blob element and selected the line
C18_Witness_MountedAtLine ==
    /\ lastEvent.type = "mount"
    /\ location = Hash(NumLines, 0)
    /\ activeLine = NumLines
    /\ selectedLines = {NumLines}
    /\ scrollTop > 0
    /\ ~hoverOverlayIsFixed

\* The hash of the location points past the end of the file
PastEndOfFile(hash) == parseHash(hash).line > NumLines

\* C19: a step that brings a hash past the end of the file (the mount with
\* it, or a change of the location to it) makes no candidate, starts and
\* cancels no lookup, scrolls and highlights nothing and keeps hoverOrError
\* and definitionURLOrError; and later events are handled as ever: a change
\* of the location to a position of the file that is not the last one the
\* location chain saw still makes that position the candidate and starts
\* its lookups.
C19_HashPastEndOfFileFailsSafe ==
    [][/\ (lastEvent'.type \in {"mount", "location"} /\ PastEndOfFile(location')) =>
            /\ UNCHANGED LookupState
            /\ UNCHANGED <<scrollTop, selectedLines, highlighted, portalNodes>>
            /\ UNCHANGED <<hoverOrError, definitionURLOrError, hoveredTokenPosition,
                           hoverOverlayIsFixed, blameLineIDs, activeLine>>
       /\ (/\ lastEvent'.type = "location"
           /\ PositionIs(parseHash(location'))
           /\ ~PastEndOfFile(location')
           /\ lastHashPosition # Pos(location'.line, location'.character)
           /\ CandidatePosition # Pos(location'.line, location'.character)) =>
            /\ CandidatePosition' = Pos(location'.line, location'.character)
            /\ HoverAwaited(CandidatePosition)'
            /\ DefinitionAwaited(CandidatePosition)']_vars

\* Witness of C19: the location has just changed to a hash past the end of
\* the file while a hover result is shown, and the result is still there
C19_Witness_PastEndKeepsHover ==
    /\ lastEvent.type = "location"
    /\ PastEndOfFile(location)
    /\ isHover(hoverOrError)
    /\ hoverOverlayElement

\* C20: LOADING is written to hoverOrError only by the delayed marker of a
\* hover lookup that is in flight, subscribed, for the latest candidate and
\* not answered yet, and the marker fires once; when the answer of a
\* subscribed lookup is written, no delayed marker is left: for that lookup
\* LOADING cannot be written any more.
C20_LoaderOnlyBeforeAnswer ==
    [][/\ (hoverOrError' = LOADING /\ hoverOrError # LOADING) => lastEvent'.type = "loader"
       /\ lastEvent'.type = "loader" =>
            \E r \in hoverFetches :
                /\ r.subscribed /\ r.loader
                /\ r.position = CandidatePosition
                /\ hoverOrError' = LOADING
                /\ hoverFetches' = (hoverFetches \ {r}) \cup {[r EXCEPT !.loader = FALSE]}
       /\ lastEvent'.type = "hover" =>
            \A fetch \in hoverFetches :
                \A response \in HoverResponses(fetch.position) :
                    (fetch.subscribed /\ HoverFetchResponds(fetch, response)) =>
                        /\ hoverOrError' # LOADING
                        /\ \A r \in hoverFetches' : ~r.loader
       /\ \A r \in hoverFetches' : r.loader => r.subscribed]_vars

\* Witness of C20: the delayed marker of the lookup of the latest candidate
\* has fired and the lookup is still awaited
C20_Witness_LoaderShown ==
    /\ lastEvent.type = "loader"
    /\ hoverOrError = LOADING
    /\ HoverAwaited(CandidatePosition)
    /\ \A r \in hoverFetches : ~r.loader

\* C21: a step that accepts a candidate without position (a pointer-over
\* that settles past the end of a line, a click there while pinned) leaves
\* hoverOrError and definitionURLOrError undefined and issues no lookup: the
\* lookups in flight are the earlier ones, all unsubscribed.  A settle on an
\* element without position while not pinned ends in the same state also
\* when the candidate repeats the previous one.
C21_NoPositionEmitsEmpty ==
    [][/\ (/\ lastCandidate' # lastCandidate
           /\ lastCandidate' # Undefined
           /\ CandidatePosition' = Undefined) =>
            /\ hoverOrError' = Undefined
            /\ definitionURLOrError' = Undefined
            /\ hoveredTokenPosition' = Undefined
            /\ hoverFetches' = switchMap(hoverFetches)
            /\ definitionFetches' = switchMap(definitionFetches)
            /\ \A r \in hoverFetches' \cup definitionFetches' : ~r.subscribed
       /\ (/\ lastEvent'.type = "settle"
           /\ ~hoverOverlayIsFixed
           /\ getTargetLineAndOffset(mouseOverDebounce) = Undefined) =>
            /\ hoverOrError' = Undefined
            /\ definitionURLOrError' = Undefined
            /\ \A r \in hoverFetches' \cup definitionFetches' : ~r.subscribed]_vars

\* Witness of C21: the pointer has settled past the end of a line while the
\* lookups of the previous candidate were in flight; they are cancelled and
\* nothing is shown
C21_Witness_SettledPastEndOfLine ==
    /\ lastEvent.type = "settle"
    /\ lastCandidate # Undefined
    /\ CandidatePosition = Undefined
    /\ hoverFetches # {}
    /\ definitionFetches # {}
    /\ hoverOrError = Undefined
    /\ definitionURLOrError = Undefined

\* The definition lookups somebody still listens to
SubscribedDefinitions(fetches) == {r \in fetches : r.subscribed}

\* C22: the step that accepts a candidate with a position ends with
\* definitionURLOrError = LOADING and exactly one subscribed definition
\* lookup, the one for that position; LOADING is written by no other step.
\* When the subscribed lookup is answered it is that of the latest candidate
\* (it was not superseded), definitionURLOrError becomes null, the jump URL
\* or an error value of that position, and no subscribed lookup is left, so
\* that the value is replaced once; a result is written by no other step.
C22_DefinitionLoadingThenResult ==
    [][/\ (lastCandidate' # lastCandidate /\ CandidatePosition' \in Positions) =>
            /\ definitionURLOrError' = LOADING
            /\ SubscribedDefinitions(definitionFetches') = {Fetch(CandidatePosition', FALSE)}
       /\ (definitionURLOrError' = LOADING /\ definitionURLOrError # LOADING) =>
            lastCandidate' # lastCandidate
       /\ lastEvent'.type = "definition" =>
            \A fetch \in definitionFetches :
                \A response \in JumpURLResponses(fetch.position) :
                    (fetch.subscribed /\ JumpURLFetchResponds(fetch, response)) =>
                        /\ fetch.position = CandidatePosition
                        /\ definitionURLOrError \in {LOADING, Undefined}
                        /\ definitionURLOrError' \in
                              {NullURL(fetch.position), JumpURL(fetch.position),
                               ErrorLike(fetch.position)}
                        /\ SubscribedDefinitions(definitionFetches') = {}
       /\ (definitionURLOrError' # definitionURLOrError
              /\ definitionURLOrError'.kind \in ResultKinds) =>
            /\ lastEvent'.type = "definition"
            /\ \E r \in AnsweredDefinition : r.subscribed]_vars

\* Witness of C22: the definition lookup of the latest candidate has just
\* been answered "not found" while the hover of the same candidate is still
\* loading
C22_Witness_NotFoundReplacesLoading ==
    /\ lastEvent.type = "definition"
    /\ CandidatePosition \in Positions
    /\ definitionURLOrError = NullURL(CandidatePosition)
    /\ hoverOrError = LOADING
    /\ HoverAwaited(CandidatePosition)

\* The position of the hash the location has after the step
NextHashPosition == Pos(parseHash(location').line, parseHash(location').character)

\* The step hands filteredTargetPositions a target whose position equals
\* that of the previous candidate: a pointer-over that settles while not
\* pinned, a click while pinned, or a hash position new to the location
\* chain (from a change of the location or from the push of a click)
RepeatedCandidate ==
    /\ lastCandidate # Undefined
    /\ \/ /\ lastEvent'.type = "settle"
          /\ ~hoverOverlayIsFixed
          /\ isEqual(getTargetLineAndOffset(mouseOverDebounce), lastCandidate.position)
       \/ /\ lastEvent'.type = "click"
          /\ hoverOverlayIsFixed
          /\ isEqual(getTargetLineAndOffset(ClickedTarget'), lastCandidate.position)
       \/ /\ lastEvent'.type \in {"click", "location"}
          /\ PositionIs(parseHash(location'))
          /\ ~isEqual(NextHashPosition, lastHashPosition)
          /\ targetsFromLocationHash(NextHashPosition) # Undefined
          /\ isEqual(NextHashPosition, lastCandidate.position)

\* C23: a step that offers a candidate whose position equals that of the
\* previous candidate, from whichever source, starts and cancels no hover
\* or definition lookup, keeps the candidate memory and changes neither
\* hoveredTokenPosition nor clickedGoToDefinition.
C23_RepeatedCandidateSuppressed ==
    [][RepeatedCandidate =>
        /\ UNCHANGED LookupState
        /\ hoveredTokenPosition' = hoveredTokenPosition
        /\ clickedGoToDefinition' = clickedGoToDefinition]_vars

\* Witness of C23: the candidate came from a pointer-over (no click and no
\* hash on mount), its hover was answered, and the location has just changed
\* to the hash of the same position: the target reached the overlay
\* placement, but no lookup was started and the hover is kept
C23_Witness_HashRepeatsPointer ==
    /\ lastEvent.type = "location"
    /\ activeLine = 0
    /\ latestTarget # Undefined
    /\ latestTarget.source = "location"
    /\ CandidatePosition = Pos(1, 1)
    /\ lastHashPosition = Pos(1, 1)
    /\ hoveredTokenPosition = Pos(1, 1)
    /\ isHover(hoverOrError)
    /\ hoverFetches = {}

\* The step emits a value on hovers: the answer of a subscribed lookup, the
\* delayed LOADING, or undefined for a candidate without position
HoverEmitted ==
    \/ lastEvent'.type = "hover" /\ \E r \in AnsweredHover : r.subscribed
    \/ lastEvent'.type = "loader"
    \/ lastCandidate' # lastCandidate /\ CandidatePosition' = Undefined

\* The tokens to highlight for a hover value: the token that starts at the
\* (zero-based) start of its range, if it has a range and the token exists
RangeTokens(hover) ==
    IF isHover(hover) /\ hover.range # NoRange
    THEN {t \in Tokens : t.line = hover.range.line + 1
                         /\ t.character = hover.range.character + 1}
    ELSE {}

\* C24: at most one token has the class selection-highlight in every
\* reachable state; a step that emits a hover value (LOADING, empty and
\* error values included) leaves exactly the token at the start of the
\* range of the emitted value highlighted, none if the value has no range;
\* and no other step changes the highlight.
C24_SingleRangeHighlight ==
    /\ [](Cardinality(highlighted) <= 1)
    /\ [][/\ HoverEmitted => highlighted' = RangeTokens(hoverOrError')
          /\ highlighted' # highlighted => HoverEmitted]_vars

\* Witness of C24: the hover of the latest candidate, on the last line, was
\* answered with a range and its token is the highlighted one, after an
\* earlier candidate at another position
C24_Witness_HighlightMoved ==
    /\ lastEvent.type = "hover"
    /\ isHover(hoverOrError)
    /\ hoverOrError.range # NoRange
    /\ CandidatePosition = Pos(NumLines, 1)
    /\ highlighted = {Token(NumLines, 1)}
    /\ \E r \in definitionFetches : ~r.subscribed /\ r.position # CandidatePosition

\* The offset of the measured target from the top of the content of the
\* scrollable element
MeasuredOffset == measured.targetTop + measured.scrollTop - measured.scrollableTop

\* C25: calculateOverlayPosition returns the top edge "offset of the target
\* minus the height of the tooltip" (above the target) unless that edge lies
\* above the visible top of the scrollable element, i.e. is less than
\* scrollTop, in which case it returns the offset of the bottom edge of the
\* target; so the returned top minus scrollTop is never negative.
C25_OverlayNeverAboveVisibleTop ==
    placed # Undefined =>
        /\ placed.top =
              IF MeasuredOffset - measured.tooltipHeight - measured.scrollTop < 0
              THEN MeasuredOffset + LineHeight
              ELSE MeasuredOffset - measured.tooltipHeight
        /\ placed.top - measured.scrollTop >= 0

\* C26: in every reachable state a hover result or error in hoverOrError
\* (a value other than undefined and LOADING) is the answer of the lookup
\* for the current hoveredTokenPosition.
C26_HoverBelongsToHoveredToken ==
    hoverOrError.kind \in ResultKinds => hoverOrError.of = hoveredTokenPosition

\* The overlay was dismissed by close/Escape and no candidate was accepted
\* since: the latest candidate has a position, and hoveredTokenPosition,
\* which every candidate sets to its position and only close/Escape resets,
\* is undefined
Dismissed ==
    /\ lastCandidate # Undefined
    /\ CandidatePosition \in Positions
    /\ hoveredTokenPosition = Undefined

\* C27: from close/Escape until a new candidate is accepted, hoverOrError
\* and definitionURLOrError are undefined: neither the answer nor the
\* delayed LOADING of a lookup that was in flight at the dismissal is
\* written to the state.
C27_DismissedStaysEmpty ==
    Dismissed => (hoverOrError = Undefined /\ definitionURLOrError = Undefined)

\* C28: when, after a dismissal by close/Escape, a pointer-over settles on
\* a token while the overlay is not pinned, then after the step the token's
\* position is the hovered one and a hover lookup and a definition lookup
\* for it are awaited, also when the position is that of the last candidate
\* before the dismissal.
C28_HoverAgainAfterDismissal ==
    [][(/\ lastEvent'.type = "settle"
        /\ Dismissed
        /\ ~hoverOverlayIsFixed
        /\ getTargetLineAndOffset(mouseOverDebounce) \in Positions) =>
            /\ hoveredTokenPosition' = getTargetLineAndOffset(mouseOverDebounce)
            /\ HoverAwaited(getTargetLineAndOffset(mouseOverDebounce))'
            /\ DefinitionAwaited(getTargetLineAndOffset(mouseOverDebounce))']_vars

\* C29: after a step that applies a hover value (which resets
\* hoverOverlayPosition) and leaves the overlay pinned and rendered, the
\* overlay has a position again: the rerender of the step has placed it.
C29_PinnedOverlayIsPlaced ==
    [][(/\ HoverEmitted
        /\ hoverOverlayIsFixed'
        /\ hoverOverlayElement') => hoverOverlayPosition' # Undefined]_vars

\* The queries somebody still listens to
SubscribedQueries(inFlight) == {q \in inFlight : q.subscribed}

\* The queries answered in the step
AnsweredQueries == {q \in queries : \A r \in queries' : r.query # q.query}

\* C30: a run of the effect (a new query is issued) unsubscribes every
\* query in flight, issues the query for the campaign of the render and
\* resets the result to LOADING; the answer of a query that was unsubscribed
\* leaves the result as it is; the answer of the subscribed query, which is
\* always the latest one, makes the result its thread connection or an
\* error value (also for a node that is null or not a Campaign); nothing
\* else changes the result, so that a result other than LOADING is always
\* that of the latest query.
C30_OnlyLatestQueryReports ==
    /\ [](result # LOADING => result.of = issued)
    /\ [][/\ issued' # issued =>
                /\ issued' = issued + 1
                /\ result' = LOADING
                /\ SubscribedQueries(queries') = {Query(issued', campaign.id)}
                /\ \A q \in queries : [q EXCEPT !.subscribed = FALSE] \in queries'
          /\ \A q \in AnsweredQueries :
                IF q.subscribed
                THEN /\ q.query = issued
                     /\ \/ result' = ThreadConnection(q)
                        \/ result'.kind = "error" /\ result'.of = q.query
                     /\ SubscribedQueries(queries') = {}
                ELSE result' = result
          /\ result' # result =>
                \/ issued' # issued
                \/ \E q \in AnsweredQueries : q.subscribed]_vars

\* Witness of C30: the second query, for another campaign, was answered
\* with its threads while the first, unsubscribed by the second run of the
\* effect, is still in flight; the result is that of the second
C30_Witness_LatestAnsweredFirst ==
    /\ issued = 2
    /\ campaign # Undefined
    /\ result = ThreadConnection(Query(2, campaign.id))
    /\ \E q \in queries : q.query = 1 /\ ~q.subscribed /\ q.campaign # campaign.id

====
